---------------------------- MODULE Spec2Model ----------------------------
(***************************************************************************)
(* A model of src/models.rs: the `uses:` action-reference parser (Uses,    *)
(* DockerUses, RepositoryUses), the loading of a Workflow from a file, and *)
(* the Workflow / Job / Step views with their Jobs and Steps iterators.    *)
(*                                                                         *)
(* A Rust &str is a sequence of one-character strings; Option<T> is a      *)
(* sequence of length 0 (None) or 1 (Some(x)).                             *)
(***************************************************************************)
EXTENDS Integers, Sequences, FiniteSets, TLC

VARIABLES
    uses,          \* the `uses:` string handed to the parser
    results,       \* entry point or method name -> the value it returned
    workflow,      \* the loaded workflow: its path and its `jobs:` mapping
    steps_iters,   \* the Steps iterators created so far, in creation order
    yields,        \* per Steps iterator, what its next() calls returned
    returned_jobs, \* the NormalJobs that Step::job() has returned
    abort,         \* whether the program has panicked, and where
    jobs_order,    \* the order in which the jobs HashMap's table holds its keys
    jobs_iters,    \* the Jobs iterators created so far, in creation order
    job_yields,    \* per Jobs iterator, what its next() calls returned
    file_path,     \* the path handed to Workflow::from_file
    file_text      \* what reading that path gives: nothing, or the file's text

vars ==
    <<uses, results, workflow, steps_iters, yields, returned_jobs, abort,
      jobs_order, jobs_iters, job_yields, file_path, file_text>>

---------------------------------------------------------------------------
(* Bounds of the model. *)

\* Longest free-form middle part of a `uses:` string.
MaxLen == 3

\* Most steps a Normal job declares.
MaxSteps == 2

\* Most Steps iterators alive at once.
MaxIters == 2

\* How many times next() is called on an iterator that has already ended.
MaxNone == 1

\* Longest path handed to Workflow::from_file, in bytes.
MaxPathLen == 4

---------------------------------------------------------------------------
(* Option<T> *)

None == <<>>

Some(x) == <<x>>

is_none(o) == o = <<>>

is_some(o) == o # <<>>

unwrap(o) == o[1]

---------------------------------------------------------------------------
(* Strings *)

DockerPrefix == <<"d", "o", "c", "k", "e", "r", ":", "/", "/">>

LocalPrefix == <<".", "/">>

Localhost == <<"l", "o", "c", "a", "l", "h", "o", "s", "t">>

\* char::is_ascii_hexdigit: 0-9, a-f, A-F.
is_ascii_hexdigit(c) ==
    c \in {"0", "1", "2", "3", "4", "5", "6", "7", "8", "9",
           "a", "b", "c", "d", "e", "f",
           "A", "B", "C", "D", "E", "F"}

\* str::starts_with
starts_with(s, p) == Len(s) >= Len(p) /\ SubSeq(s, 1, Len(p)) = p

\* str::strip_prefix
strip_prefix(s, p) ==
    IF starts_with(s, p) THEN Some(SubSeq(s, Len(p) + 1, Len(s))) ELSE None

RECURSIVE find_from(_, _, _)
find_from(s, c, i) ==
    IF i > Len(s) THEN None
    ELSE IF s[i] = c THEN Some(i - 1)
    ELSE find_from(s, c, i + 1)

\* str::find(char): the 0-based offset of the first occurrence.
find(s, c) == find_from(s, c, 1)

RECURSIVE rfind_from(_, _, _)
rfind_from(s, c, i) ==
    IF i < 1 THEN None
    ELSE IF s[i] = c THEN Some(i - 1)
    ELSE rfind_from(s, c, i - 1)

\* str::rfind(char): the 0-based offset of the last occurrence.
rfind(s, c) == rfind_from(s, c, Len(s))

\* str::contains(char)
contains(s, c) == is_some(find(s, c))

\* str::split_at(mid): (s[..mid], s[mid..])
split_at(s, mid) == <<SubSeq(s, 1, mid), SubSeq(s, mid + 1, Len(s))>>

\* str::split_once(char): around the first occurrence, the delimiter dropped.
split_once(s, c) ==
    LET p == find(s, c)
    IN  IF is_none(p) THEN None
        ELSE Some(<<SubSeq(s, 1, unwrap(p)), SubSeq(s, unwrap(p) + 2, Len(s))>>)

\* str::rsplit_once(char): around the last occurrence, the delimiter dropped.
rsplit_once(s, c) ==
    LET p == rfind(s, c)
    IN  IF is_none(p) THEN None
        ELSE Some(<<SubSeq(s, 1, unwrap(p)), SubSeq(s, unwrap(p) + 2, Len(s))>>)

RECURSIVE splitn(_, _, _)
\* str::splitn(n, char).collect::<Vec<_>>(): at most n pieces, the last one
\* holding the rest of the string.
splitn(n, s, c) ==
    IF n = 0 THEN <<>>
    ELSE IF n = 1 THEN <<s>>
    ELSE LET p == split_once(s, c)
         IN  IF is_none(p) THEN <<s>>
             ELSE <<unwrap(p)[1]>> \o splitn(n - 1, unwrap(p)[2], c)

\* Vec::get(i).copied(), i 0-based
get(v, i) == IF i < Len(v) THEN Some(v[i + 1]) ELSE None

---------------------------------------------------------------------------
(* DockerUses, RepositoryUses, Uses *)

DockerUses(registry, image, tag, hash) ==
    [registry |-> registry, image |-> image, tag |-> tag, hash |-> hash]

RepositoryUses(owner, repo, subpath, git_ref) ==
    [owner |-> owner, repo |-> repo, subpath |-> subpath, git_ref |-> git_ref]

UsesDocker(d) == [variant |-> "Docker", docker |-> d]

UsesRepository(r) == [variant |-> "Repository", repository |-> r]

\* The length a git_ref must have to be taken for a commit.
CommitRefLen == 40

\* ref_is_commit without the hex-digit test.
ref_is_commit_any_chars(r) ==
    IF is_some(r.git_ref) THEN Len(unwrap(r.git_ref)) = CommitRefLen ELSE FALSE

\* RepositoryUses::ref_is_commit
ref_is_commit(r) ==
    IF is_some(r.git_ref)
    THEN LET git_ref == unwrap(r.git_ref)
         IN  /\ Len(git_ref) = CommitRefLen
             /\ \A i \in 1..Len(git_ref) : is_ascii_hexdigit(git_ref[i])
    ELSE FALSE

\* RepositoryUses::commit_ref
commit_ref(r) ==
    IF is_some(r.git_ref) /\ ref_is_commit(r) THEN Some(unwrap(r.git_ref))
    ELSE None

\* RepositoryUses::symbolic_ref
symbolic_ref(r) ==
    IF is_some(r.git_ref) /\ ~ref_is_commit(r) THEN Some(unwrap(r.git_ref))
    ELSE None

\* is_registry without the host:port case.
is_registry_no_port(registry) ==
    registry = Localhost \/ contains(registry, ".")

\* Uses::is_registry
is_registry(registry) ==
    \/ registry = Localhost
    \/ contains(registry, ".")
    \/ contains(registry, ":")

\* The first statement of Uses::from_image_ref: (registry, image).
split_registry(image) ==
    LET so == split_once(image, "/")
    IN  IF is_some(so) /\ is_registry(unwrap(so)[1])
        THEN <<Some(unwrap(so)[1]), unwrap(so)[2]>>
        ELSE <<None, image>>

\* The `@` branch of Uses::from_image_ref.
image_with_hash(registry, image, at_pos) ==
    LET parts == split_at(image, at_pos)
        hash  == IF parts[2] = <<>> THEN None ELSE Some(Tail(parts[2]))
    IN  Some(UsesDocker(DockerUses(registry, parts[1], None, hash)))

\* The else branch of Uses::from_image_ref.
image_with_tag(registry, image) ==
    LET so == split_once(image, ":")
        it == IF is_some(so) /\ unwrap(so)[2] = <<>> THEN <<unwrap(so)[1], None>>
              ELSE IF is_some(so) THEN <<unwrap(so)[1], Some(unwrap(so)[2])>>
              ELSE <<image, None>>
    IN  Some(UsesDocker(DockerUses(registry, it[1], it[2], None)))

\* from_image_ref looking for `:` before `@`.
from_image_ref_tag_first(image) ==
    LET ri == split_registry(image)
    IN  IF contains(ri[2], ":") \/ ~contains(ri[2], "@")
        THEN image_with_tag(ri[1], ri[2])
        ELSE image_with_hash(ri[1], ri[2], unwrap(find(ri[2], "@")))

\* Uses::from_image_ref
from_image_ref(image) ==
    LET ri     == split_registry(image)
        at_pos == find(ri[2], "@")
    IN  IF is_some(at_pos)
        THEN image_with_hash(ri[1], ri[2], unwrap(at_pos))
        ELSE image_with_tag(ri[1], ri[2])

\* from_repository_ref splitting on the first `@`.
from_repository_ref_first_at(s) ==
    LET ro         == split_once(s, "@")
        path       == IF is_some(ro) THEN unwrap(ro)[1] ELSE s
        git_ref    == IF is_some(ro) THEN Some(unwrap(ro)[2]) ELSE None
        components == splitn(3, path, "/")
    IN  IF Len(components) < 2 THEN None
        ELSE Some(UsesRepository(RepositoryUses(
                 components[1], components[2], get(components, 2), git_ref)))

\* The last branch of Uses::from_common: an owner/repo[/subpath][@ref] slug.
from_repository_ref(s) ==
    LET ro         == rsplit_once(s, "@")
        path       == IF is_some(ro) THEN unwrap(ro)[1] ELSE s
        git_ref    == IF is_some(ro) THEN Some(unwrap(ro)[2]) ELSE None
        components == splitn(3, path, "/")
    IN  IF Len(components) < 2 THEN None
        ELSE Some(UsesRepository(RepositoryUses(
                 components[1], components[2], get(components, 2), git_ref)))

\* from_common without the `./` rule.
from_common_no_local(s) ==
    IF is_some(strip_prefix(s, DockerPrefix))
    THEN from_image_ref(unwrap(strip_prefix(s, DockerPrefix)))
    ELSE from_repository_ref(s)

\* Uses::from_common
from_common(s) ==
    IF starts_with(s, LocalPrefix) THEN None
    ELSE IF is_some(strip_prefix(s, DockerPrefix))
         THEN from_image_ref(unwrap(strip_prefix(s, DockerPrefix)))
         ELSE from_repository_ref(s)

\* Uses::from_step
from_step(s) == from_common(s)

\* from_reusable without the git_ref requirement.
from_reusable_any_ref(s) ==
    LET u == from_common(s)
    IN  IF is_none(u) THEN None
        ELSE IF unwrap(u).variant = "Docker" THEN None
        ELSE Some(unwrap(u).repository)

\* Uses::from_reusable: an Option<RepositoryUses>.
from_reusable(s) ==
    LET u == from_common(s)
    IN  IF is_none(u) THEN None
        ELSE IF unwrap(u).variant = "Docker" THEN None
        ELSE IF is_none(unwrap(u).repository.git_ref) THEN None
        ELSE Some(unwrap(u).repository)

\* Uses::unpinned
unpinned(u) ==
    IF u.variant = "Docker"
    THEN is_none(u.docker.hash) /\ is_none(u.docker.tag)
    ELSE is_none(u.repository.git_ref)

---------------------------------------------------------------------------
(* The workflow document and the Job / Step views over it *)

\* The keys a `jobs:` mapping may hold.
JobIds == {"build", "call"}

\* workflow::job::Step, as the deserializer hands it over.
StepModel == [body |-> "Run"]

\* workflow::Job::NormalJob with n declared steps.
NormalJob(n) == [kind |-> "NormalJob", steps |-> [i \in 1..n |-> StepModel]]

\* workflow::Job::ReusableWorkflowCallJob
ReusableWorkflowCallJob == [kind |-> "ReusableWorkflowCallJob"]

JobModels == {NormalJob(n) : n \in 0..MaxSteps} \cup {ReusableWorkflowCallJob}

\* workflow::Workflow, as the deserializer hands it over: its `jobs` mapping.
JobMaps == UNION {[d -> JobModels] : d \in SUBSET JobIds}

\* Workflow { path, document, inner }
Workflow(p, document, inner) == [path |-> p, document |-> document, jobs |-> inner]

\* yamlpath::Document::new(contents), when it succeeds.
Document(contents) == [indexed |-> contents.yaml]

CiYml == <<"c", "i", ".", "y", "m", "l">>

\* The text of a file that deserializes to `inner` and can be indexed.
WorkflowText(inner) == [yaml |-> Some(inner), index |-> TRUE]

\* The workflows loaded from a file ci.yml.
WorkflowModels ==
    {Workflow(CiYml, Document(WorkflowText(j)), j) : j \in JobMaps}

\* &'w Workflow: the workflow is named by its path.
WorkflowRef(w) == w.path

\* &'w workflow::Job: the entry of the jobs mapping under key `id`.
JobRef(id) == [job |-> id]

\* &'w workflow::job::Step: element `at` (0-based) of that job's steps.
StepRef(id, at) == [job |-> id, at |-> at]

\* Job::new
Job_new(id, inner, parent) == [id |-> id, inner |-> inner, parent |-> parent]

\* Step::new
Step_new(index, inner, parent) ==
    [index |-> index, inner |-> inner, parent |-> parent]

\* <[Step]>::iter(): a cursor over the job's steps, from the first.
slice_iter(id, steps) == [job |-> id, pos |-> 0, end |-> Len(steps)]

\* slice::Iter::next: <<the iterator afterwards, the item>>.
slice_iter_next(it) ==
    IF it.pos < it.end
    THEN <<[it EXCEPT !.pos = @ + 1], Some(StepRef(it.job, it.pos))>>
    ELSE <<it, None>>

\* Iterator::enumerate
enumerate(it) == [iter |-> it, count |-> 0]

\* Enumerate::next that never advances its count.
enumerate_next_stuck(e) ==
    LET r == slice_iter_next(e.iter)
    IN  IF is_some(r[2])
        THEN <<[iter |-> r[1], count |-> e.count], Some(<<e.count, unwrap(r[2])>>)>>
        ELSE <<[e EXCEPT !.iter = r[1]], None>>

\* Enumerate::next: <<the iterator afterwards, the item>>.
enumerate_next(e) ==
    LET r == slice_iter_next(e.iter)
    IN  IF is_some(r[2])
        THEN <<[iter |-> r[1], count |-> e.count + 1],
               Some(<<e.count, unwrap(r[2])>>)>>
        ELSE <<[e EXCEPT !.iter = r[1]], None>>

\* Steps::new that hands out an empty iterator for a reusable job.
Steps_new_empty(w, job) ==
    LET inner == w.jobs[job.inner.job]
        steps == IF inner.kind = "NormalJob" THEN inner.steps ELSE <<>>
    IN  [panic |-> FALSE,
         value |-> [inner  |-> enumerate(slice_iter(job.inner.job, steps)),
                    parent |-> job]]

\* Steps::new: it panics on a reusable job, else returns the iterator.
Steps_new(w, job) ==
    LET inner == w.jobs[job.inner.job]
    IN  IF inner.kind = "ReusableWorkflowCallJob"
        THEN [panic |-> TRUE]
        ELSE [panic |-> FALSE,
              value |-> [inner  |-> enumerate(slice_iter(job.inner.job, inner.steps)),
                         parent |-> job]]

\* <Steps as Iterator>::next: <<the iterator afterwards, the item>>.
Steps_next(s) ==
    LET r == enumerate_next(s.inner)
    IN  <<[s EXCEPT !.inner = r[1]],
          IF is_some(r[2])
          THEN Some(Step_new(unwrap(r[2])[1], unwrap(r[2])[2], s.parent))
          ELSE None>>

\* Step::job: the parent's NormalJob, or unreachable!().
Step_job(w, step) ==
    LET inner == w.jobs[step.parent.inner.job]
    IN  IF inner.kind = "NormalJob"
        THEN [panic |-> FALSE, value |-> step.parent.inner]
        ELSE [panic |-> TRUE]

\* The orders a HashMap with these keys may hold them in: any, but one per map.
TableOrders(keys) ==
    {o \in [1..Cardinality(keys) -> keys] : \A i, j \in DOMAIN o : i # j => o[i] # o[j]}

\* HashMap::iter(): a cursor over the table, from its first entry.
hash_map_iter(order) == [order |-> order, pos |-> 0]

\* hash_map::Iter::next that stays on the entry it returns.
hash_map_iter_next_stuck(it) ==
    IF it.pos < Len(it.order)
    THEN <<it, Some(<<it.order[it.pos + 1], JobRef(it.order[it.pos + 1])>>)>>
    ELSE <<it, None>>

\* hash_map::Iter::next: <<the iterator afterwards, the (key, value) item>>.
hash_map_iter_next(it) ==
    IF it.pos < Len(it.order)
    THEN <<[it EXCEPT !.pos = @ + 1],
           Some(<<it.order[it.pos + 1], JobRef(it.order[it.pos + 1])>>)>>
    ELSE <<it, None>>

\* Jobs::new
Jobs_new(w, order) == [parent |-> WorkflowRef(w), inner |-> hash_map_iter(order)]

\* <Jobs as Iterator>::next: <<the iterator afterwards, the item>>.
Jobs_next(j) ==
    LET r == hash_map_iter_next(j.inner)
    IN  <<[j EXCEPT !.inner = r[1]],
          IF is_some(r[2])
          THEN Some(Job_new(unwrap(r[2])[1], unwrap(r[2])[2], j.parent))
          ELSE None>>

---------------------------------------------------------------------------
(* Paths and files. A path is a sequence of bytes; InvalidByte stands for a
   byte that is not part of any UTF-8 encoding. *)

InvalidByte == "<FF>"

PathBytes == {"w", "/", ".", InvalidByte}

Paths == UNION {[1..n -> PathBytes] : n \in 0..MaxPathLen}

\* Path::to_str: the path as a &str if it is valid UTF-8.
to_str(p) ==
    IF \A i \in 1..Len(p) : p[i] # InvalidByte THEN Some(p) ELSE None

\* One `/`-separated segment of a path as a Component, if it is one: empty
\* segments and `.` are dropped, except a `.` that starts a relative path.
component(seg, leading) ==
    IF seg = <<>> THEN None
    ELSE IF seg = <<".">> THEN (IF leading THEN Some([kind |-> "CurDir"]) ELSE None)
    ELSE IF seg = <<".", ".">> THEN Some([kind |-> "ParentDir"])
    ELSE Some([kind |-> "Normal", name |-> seg])

RECURSIVE components_from(_, _)
components_from(segs, i) ==
    IF i > Len(segs) THEN <<>>
    ELSE component(segs[i], i = 1) \o components_from(segs, i + 1)

\* Path::components().collect(), on Unix.
components(p) ==
    (IF starts_with(p, <<"/">>) THEN <<[kind |-> "RootDir"]>> ELSE <<>>)
    \o components_from(splitn(Len(p) + 1, p, "/"), 1)

\* Path::file_name: the last component, if it is a normal one.
file_name(p) ==
    LET cs == components(p)
    IN  IF cs # <<>> /\ cs[Len(cs)].kind = "Normal"
        THEN Some(cs[Len(cs)].name)
        ELSE None

\* Whether the operating system can resolve the path to a regular file: its
\* last segment must be a name. A path that ends in `/`, `.` or `..`, or is
\* empty, resolves to a directory or to nothing.
names_regular_file(p) ==
    LET so   == rsplit_once(p, "/")
        last == IF is_some(so) THEN unwrap(so)[2] ELSE p
    IN  last \notin {<<>>, <<".">>, <<".", ".">>}

\* The text of a file, as far as loading looks at it: what
\* serde_yaml::from_str makes of it, and whether yamlpath can index it.
FileTexts ==
    {[yaml |-> y, index |-> i] :
        y \in {None} \cup {Some(j) : j \in JobMaps}, i \in BOOLEAN}

\* What std::fs::read_to_string(p) may give: an error (no such file, a
\* directory, text that is not UTF-8), or the text of a regular file.
ReadOutcomes(p) ==
    {None} \cup (IF names_regular_file(p) THEN {Some(t) : t \in FileTexts} ELSE {})

Ok(v) == [ok |-> TRUE, value |-> v]

Err(e) == [ok |-> FALSE, error |-> e]

\* Workflow::from_file that stores the path without asking whether it is UTF-8.
from_file_lossy(p, read) ==
    IF is_none(read) THEN Err("io")
    ELSE IF is_none(unwrap(read).yaml) THEN Err("invalid GitHub Actions workflow")
    ELSE IF ~unwrap(read).index THEN Err("yamlpath")
    ELSE Ok(Workflow(p, Document(unwrap(read)), unwrap(unwrap(read).yaml)))

\* Workflow::from_file, `read` being what read_to_string(p) gives.
from_file(p, read) ==
    IF is_none(read) THEN Err("io")
    ELSE IF is_none(unwrap(read).yaml) THEN Err("invalid GitHub Actions workflow")
    ELSE IF ~unwrap(read).index THEN Err("yamlpath")
    ELSE IF is_none(to_str(p)) THEN Err("invalid workflow: path is not UTF-8")
    ELSE Ok(Workflow(unwrap(to_str(p)), Document(unwrap(read)),
                     unwrap(unwrap(read).yaml)))

\* Workflow::filename: both unwraps, either of which may panic.
Workflow_filename(w) ==
    LET name == file_name(w.path)
    IN  IF is_none(name) \/ is_none(to_str(unwrap(name)))
        THEN [panic |-> TRUE]
        ELSE [panic |-> FALSE, value |-> unwrap(to_str(unwrap(name)))]

---------------------------------------------------------------------------
(* The parser's inputs *)

Alphabet == {"a", "/", "@", ":", "."}

Hex8 == <<"8", "f", "4", "B", "7", "f", "0", "9">>

Hex40 == Hex8 \o Hex8 \o Hex8 \o Hex8 \o Hex8

\* What a `uses:` string may start with.
Heads ==
    { <<>>, LocalPrefix, DockerPrefix, DockerPrefix \o Localhost,
      SubSeq(DockerPrefix, 1, 8), <<"a", "/", "a", "/">> }

\* What a `uses:` string may end with: nothing, or `@` and a ref that is a
\* commit hash, one character short, one character long, or not all hex.
Tails ==
    { <<>>, <<"@">> \o Hex40, <<"@">> \o SubSeq(Hex40, 1, 39),
      <<"@">> \o Hex40 \o <<"0">>, <<"@">> \o SubSeq(Hex40, 1, 39) \o <<"g">> }

Bodies == UNION {[1..n -> Alphabet] : n \in 0..MaxLen}

Inputs == {h \o b \o t : h \in Heads, b \in Bodies, t \in Tails}

NoResults == [e \in {} |-> None]

NoWorkflow == [path |-> <<>>, jobs |-> [d \in {} |-> ReusableWorkflowCallJob]]

---------------------------------------------------------------------------
(* The parser as a state machine: one `uses:` string, parsed through either
   entry point, and the parsed reference queried for its pinning. *)

Init ==
    /\ uses \in Inputs
    /\ results = NoResults
    /\ workflow = NoWorkflow
    /\ steps_iters = <<>>
    /\ yields = <<>>
    /\ returned_jobs = {}
    /\ abort = "none"
    /\ jobs_order = <<>>
    /\ jobs_iters = <<>>
    /\ job_yields = <<>>
    /\ file_path = <<>>
    /\ file_text = None

model_vars ==
    <<workflow, steps_iters, yields, returned_jobs, abort,
      jobs_order, jobs_iters, job_yields, file_path, file_text>>

\* Uses::from_step(uses), as Step::uses() calls it.
FromStep ==
    /\ "from_step" \notin DOMAIN results
    /\ results' = results @@ ("from_step" :> from_step(uses))
    /\ UNCHANGED <<uses, model_vars>>

\* Uses::from_reusable(uses)
FromReusable ==
    /\ "from_reusable" \notin DOMAIN results
    /\ results' = results @@ ("from_reusable" :> from_reusable(uses))
    /\ UNCHANGED <<uses, model_vars>>

\* What the pinning queries return on a parsed reference.
pinning(u) ==
    IF u.variant = "Repository"
    THEN [unpinned      |-> unpinned(u),
          ref_is_commit |-> ref_is_commit(u.repository),
          commit_ref    |-> commit_ref(u.repository),
          symbolic_ref  |-> symbolic_ref(u.repository)]
    ELSE [unpinned |-> unpinned(u)]

\* unpinned(), ref_is_commit(), commit_ref() and symbolic_ref() called on the
\* reference from_step returned.
Pinning ==
    /\ "from_step" \in DOMAIN results
    /\ "pinning" \notin DOMAIN results
    /\ is_some(results["from_step"])
    /\ results' = results @@ ("pinning" :> pinning(unwrap(results["from_step"])))
    /\ UNCHANGED <<uses, model_vars>>

Next == FromStep \/ FromReusable \/ Pinning

Spec == Init /\ [][Next]_vars

---------------------------------------------------------------------------
(* The object model as a state machine: one loaded workflow, Steps
   iterators created on its jobs and advanced, and Step::job() called on
   the Step views they yield. *)

ModelInit ==
    /\ workflow \in WorkflowModels
    /\ steps_iters = <<>>
    /\ yields = <<>>
    /\ returned_jobs = {}
    /\ abort = "none"
    /\ uses = <<>>
    /\ results = NoResults
    /\ jobs_order \in TableOrders(DOMAIN workflow.jobs)
    /\ jobs_iters = <<>>
    /\ job_yields = <<>>
    /\ file_path = workflow.path
    /\ file_text = Some(WorkflowText(workflow.jobs))

jobs_vars == <<jobs_order, jobs_iters, job_yields, file_path, file_text>>

Nones(ys) == Cardinality({i \in 1..Len(ys) : is_none(ys[i])})

\* Job::steps() on the Job view of the entry `id`.
JobSteps(id) ==
    /\ abort = "none"
    /\ id \in DOMAIN workflow.jobs
    /\ Len(steps_iters) < MaxIters
    /\ LET job == Job_new(id, JobRef(id), WorkflowRef(workflow))
           r   == Steps_new(workflow, job)
       IN  IF r.panic
           THEN /\ abort' = "steps() on a reusable job"
                /\ UNCHANGED <<steps_iters, yields>>
           ELSE /\ steps_iters' = Append(steps_iters, r.value)
                /\ yields' = Append(yields, <<>>)
                /\ UNCHANGED abort
    /\ UNCHANGED <<uses, results, workflow, returned_jobs, jobs_vars>>

\* next() on the k-th Steps iterator.
StepsNext(k) ==
    /\ abort = "none"
    /\ k \in 1..Len(steps_iters)
    /\ Nones(yields[k]) < MaxNone
    /\ LET r == Steps_next(steps_iters[k])
       IN  /\ steps_iters' = [steps_iters EXCEPT ![k] = r[1]]
           /\ yields' = [yields EXCEPT ![k] = Append(@, r[2])]
    /\ UNCHANGED <<uses, results, workflow, returned_jobs, abort, jobs_vars>>

\* Step::job() on the i-th item the k-th iterator yielded.
StepJob(k, i) ==
    /\ abort = "none"
    /\ k \in 1..Len(yields)
    /\ i \in 1..Len(yields[k])
    /\ is_some(yields[k][i])
    /\ LET r == Step_job(workflow, unwrap(yields[k][i]))
       IN  IF r.panic
           THEN /\ abort' = "unreachable"
                /\ UNCHANGED returned_jobs
           ELSE /\ returned_jobs' = returned_jobs \cup {r.value}
                /\ UNCHANGED abort
    /\ UNCHANGED <<uses, results, workflow, steps_iters, yields, jobs_vars>>

ModelNext ==
    \/ \E id \in JobIds : JobSteps(id)
    \/ \E k \in 1..MaxIters : StepsNext(k)
    \/ \E k \in 1..MaxIters : \E i \in 1..(MaxSteps + MaxNone) : StepJob(k, i)

ModelSpec == ModelInit /\ [][ModelNext]_vars

---------------------------------------------------------------------------
(* Job enumeration as a state machine: one loaded workflow, Jobs iterators
   created on it and advanced. *)

steps_vars == <<steps_iters, yields, returned_jobs, abort>>

\* Workflow::jobs()
WorkflowJobs ==
    /\ Len(jobs_iters) < MaxIters
    /\ jobs_iters' = Append(jobs_iters, Jobs_new(workflow, jobs_order))
    /\ job_yields' = Append(job_yields, <<>>)
    /\ UNCHANGED <<uses, results, workflow, jobs_order, steps_vars, file_path, file_text>>

\* next() on the k-th Jobs iterator.
JobsNext(k) ==
    /\ k \in 1..Len(jobs_iters)
    /\ Nones(job_yields[k]) < MaxNone
    /\ LET r == Jobs_next(jobs_iters[k])
       IN  /\ jobs_iters' = [jobs_iters EXCEPT ![k] = r[1]]
           /\ job_yields' = [job_yields EXCEPT ![k] = Append(@, r[2])]
    /\ UNCHANGED <<uses, results, workflow, jobs_order, steps_vars, file_path, file_text>>

JobsSpecNext ==
    \/ WorkflowJobs
    \/ \E k \in 1..MaxIters : JobsNext(k)

JobsSpec == ModelInit /\ [][JobsSpecNext]_vars

---------------------------------------------------------------------------
(* Loading as a state machine: one path and what the file system holds
   there, Workflow::from_file on it, and filename() on the Workflow it
   returns. *)

FileInit ==
    /\ file_path \in Paths
    /\ file_text \in ReadOutcomes(file_path)
    /\ results = NoResults
    /\ workflow = NoWorkflow
    /\ uses = <<>>
    /\ steps_iters = <<>>
    /\ yields = <<>>
    /\ returned_jobs = {}
    /\ abort = "none"
    /\ jobs_order = <<>>
    /\ jobs_iters = <<>>
    /\ job_yields = <<>>

\* Workflow::from_file(file_path)
FromFile ==
    /\ "from_file" \notin DOMAIN results
    /\ LET r == from_file(file_path, file_text)
       IN  IF r.ok
           THEN /\ results' = results @@ ("from_file" :> [ok |-> TRUE])
                /\ workflow' = r.value
                /\ jobs_order' \in TableOrders(DOMAIN r.value.jobs)
           ELSE /\ results' = results @@ ("from_file" :> r)
                /\ UNCHANGED <<workflow, jobs_order>>
    /\ UNCHANGED <<uses, steps_vars, jobs_iters, job_yields, file_path, file_text>>

\* Workflow::filename() on the loaded workflow.
Filename ==
    /\ abort = "none"
    /\ "from_file" \in DOMAIN results
    /\ results["from_file"].ok
    /\ "filename" \notin DOMAIN results
    /\ LET r == Workflow_filename(workflow)
       IN  IF r.panic
           THEN /\ abort' = "filename() on a path without a file name"
                /\ UNCHANGED results
           ELSE /\ results' = results @@ ("filename" :> r.value)
                /\ UNCHANGED abort
    /\ UNCHANGED <<uses, workflow, steps_iters, yields, returned_jobs, jobs_vars>>

FileNext == FromFile \/ Filename

FileSpec == FileInit /\ [][FileNext]_vars

---------------------------------------------------------------------------
(* The vocabulary of the claims: text positions stated directly, without
   the parser's own splitting functions. *)

Chars(s) == {s[i] : i \in 1..Len(s)}

Positions(s, c) == {i \in 1..Len(s) : s[i] = c}

FirstPos(s, c) == CHOOSE i \in Positions(s, c) : \A j \in Positions(s, c) : i <= j

LastPos(s, c) == CHOOSE i \in Positions(s, c) : \A j \in Positions(s, c) : j <= i

TextBefore(s, i) == [j \in 1..(i - 1) |-> s[j]]

TextAfter(s, i) == [j \in 1..(Len(s) - i) |-> s[i + j]]

HasPrefix(s, p) == Len(p) <= Len(s) /\ \A i \in 1..Len(p) : s[i] = p[i]

IsLocalInput(s) == HasPrefix(s, <<".", "/">>)

IsDockerInput(s) ==
    ~IsLocalInput(s) /\ HasPrefix(s, <<"d", "o", "c", "k", "e", "r", ":", "/", "/">>)

IsRepositoryInput(s) == ~IsLocalInput(s) /\ ~IsDockerInput(s)

\* The text after `docker://`.
DockerRest(s) == TextAfter(s, 9)

\* Whether the text before the first `/` of an image reference names a registry.
NamesRegistry(rest) ==
    /\ "/" \in Chars(rest)
    /\ LET host == TextBefore(rest, FirstPos(rest, "/"))
       IN  \/ host = <<"l", "o", "c", "a", "l", "h", "o", "s", "t">>
           \/ "." \in Chars(host)
           \/ ":" \in Chars(host)

\* The image part of an image reference: what is left once a registry is split off.
ImagePart(rest) ==
    IF NamesRegistry(rest) THEN TextAfter(rest, FirstPos(rest, "/")) ELSE rest

\* The image name within an image part: up to the first `@`, else up to the
\* first `:`, else all of it.
ImageName(part) ==
    IF "@" \in Chars(part) THEN TextBefore(part, FirstPos(part, "@"))
    ELSE IF ":" \in Chars(part) THEN TextBefore(part, FirstPos(part, ":"))
    ELSE part

\* An optional text: absent when empty.
NonEmpty(t) == IF t = <<>> THEN <<>> ELSE <<t>>

Called(f) == f \in DOMAIN results

\* The path of a repository reference: the text before the last `@`.
RefPath(s) == IF "@" \in Chars(s) THEN TextBefore(s, LastPos(s, "@")) ELSE s

\* owner/repo[/subpath][@git_ref]
Joined(r) ==
    r.owner \o <<"/">> \o r.repo
    \o (IF r.subpath = <<>> THEN <<>> ELSE <<"/">> \o r.subpath[1])
    \o (IF r.git_ref = <<>> THEN <<>> ELSE <<"@">> \o r.git_ref[1])

IsHexChar(c) ==
    c \in {"0", "1", "2", "3", "4", "5", "6", "7", "8", "9"}
          \cup {"a", "b", "c", "d", "e", "f"} \cup {"A", "B", "C", "D", "E", "F"}

IsCommitHash(t) == Len(t) = 40 /\ \A i \in 1..Len(t) : IsHexChar(t[i])

---------------------------------------------------------------------------
(* C1: for every `docker://<s>` whose image part contains `@`, from_step
   returns a Docker reference whose image is the text before the first `@`
   and whose hash is the text after it, the hash being absent (never a
   present empty string) when that text is empty. *)
C1_HashAfterAt ==
    (Called("from_step") /\ IsDockerInput(uses)
        /\ "@" \in Chars(ImagePart(DockerRest(uses))))
    => LET part == ImagePart(DockerRest(uses))
           at   == FirstPos(part, "@")
           u    == results["from_step"]
       IN  /\ u # <<>>
           /\ u[1].variant = "Docker"
           /\ u[1].docker.image = TextBefore(part, at)
           /\ u[1].docker.hash = NonEmpty(TextAfter(part, at))

---------------------------------------------------------------------------
(* C2: on the repository branch from_step returns a Repository reference
   only with both a non-empty owner and a non-empty repo; an input with no
   owner or no repo, in particular one whose path before the last `@` has
   fewer than two `/`-separated components, yields no reference. *)
C2_OwnerAndRepoPresent ==
    (Called("from_step") /\ IsRepositoryInput(uses))
    => LET u    == results["from_step"]
           path == RefPath(uses)
       IN  /\ u # <<>> =>
                /\ u[1].variant = "Repository"
                /\ u[1].repository.owner # <<>>
                /\ u[1].repository.repo # <<>>
           /\ "/" \notin Chars(path) => u = <<>>

---------------------------------------------------------------------------
(* C3: the pinning class of a parsed Repository reference is decided by its
   git_ref alone, in exactly one of three ways: absent, then unpinned() and
   neither commit_ref() nor symbolic_ref(); present with exactly 40 ASCII
   hex digits, then ref_is_commit(), commit_ref() = git_ref, no
   symbolic_ref(), not unpinned(); any other present git_ref, then not
   ref_is_commit(), symbolic_ref() = git_ref, no commit_ref(), not
   unpinned(). *)
C3_PinningClass ==
    (Called("pinning") /\ results["from_step"][1].variant = "Repository")
    => LET g == results["from_step"][1].repository.git_ref
           p == results["pinning"]
       IN  IF g = <<>>
           THEN /\ p.unpinned
                /\ ~p.ref_is_commit
                /\ p.commit_ref = <<>>
                /\ p.symbolic_ref = <<>>
           ELSE IF IsCommitHash(g[1])
           THEN /\ p.ref_is_commit
                /\ p.commit_ref = g
                /\ p.symbolic_ref = <<>>
                /\ ~p.unpinned
           ELSE /\ ~p.ref_is_commit
                /\ p.symbolic_ref = g
                /\ p.commit_ref = <<>>
                /\ ~p.unpinned

\* A Repository reference with a 40-hex-digit git_ref has been classified.
C3_Witness ==
    /\ Called("pinning")
    /\ results["from_step"][1].variant = "Repository"
    /\ results["from_step"][1].repository.git_ref # <<>>
    /\ IsCommitHash(results["from_step"][1].repository.git_ref[1])
    /\ results["pinning"].ref_is_commit

---------------------------------------------------------------------------
(* C4: from_reusable(s) returns no reference exactly when from_step(s)
   returns no reference, a Docker reference, or a Repository reference
   without git_ref; otherwise it returns the Repository reference from_step
   returns, so whatever it returns has a git_ref. *)
C4_ReusableAgainstStep ==
    (Called("from_step") /\ Called("from_reusable"))
    => LET u == results["from_step"]
           r == results["from_reusable"]
           rejected == \/ u = <<>>
                       \/ u[1].variant = "Docker"
                       \/ u[1].repository.git_ref = <<>>
       IN  /\ r = <<>> <=> rejected
           /\ r # <<>> => /\ r[1] = u[1].repository
                          /\ r[1].git_ref # <<>>

\* Both entry points have parsed a string that from_reusable accepts.
C4_Witness ==
    /\ Called("from_step")
    /\ Called("from_reusable")
    /\ results["from_reusable"] # <<>>

---------------------------------------------------------------------------
(* C5: for every input the repository branch accepts, git_ref is the text
   after the last `@` (absent without `@`), the path is the text before it,
   owner is the path up to its first `/`, repo the path between its first
   and second `/` (or to its end), subpath everything after the second `/`
   (absent without one); so owner/repo[/subpath][@git_ref] is the input. *)
C5_RepositoryFields ==
    (Called("from_step") /\ IsRepositoryInput(uses) /\ results["from_step"] # <<>>)
    => LET r    == results["from_step"][1].repository
           path == RefPath(uses)
           rest == TextAfter(path, FirstPos(path, "/"))
       IN  /\ results["from_step"][1].variant = "Repository"
           /\ r.git_ref = IF "@" \in Chars(uses)
                          THEN <<TextAfter(uses, LastPos(uses, "@"))>>
                          ELSE <<>>
           /\ "/" \in Chars(path)
           /\ r.owner = TextBefore(path, FirstPos(path, "/"))
           /\ r.repo = IF "/" \in Chars(rest)
                       THEN TextBefore(rest, FirstPos(rest, "/"))
                       ELSE rest
           /\ r.subpath = IF "/" \in Chars(rest)
                          THEN <<TextAfter(rest, FirstPos(rest, "/"))>>
                          ELSE <<>>
           /\ Joined(r) = uses

\* A reference with two `@` and a subpath that keeps a `/` has been parsed.
C5_Witness ==
    /\ Called("from_step")
    /\ IsRepositoryInput(uses)
    /\ results["from_step"] # <<>>
    /\ Cardinality(Positions(uses, "@")) >= 2
    /\ results["from_step"][1].repository.subpath # <<>>
    /\ "/" \in Chars(results["from_step"][1].repository.subpath[1])

---------------------------------------------------------------------------
(* C6: for every `docker://<s>` the Docker reference has a registry iff s
   contains `/` and the text before the first `/` is `localhost`, contains
   `.` or contains `:`; then the registry is that text and the image is
   parsed from the text after that `/`, and otherwise the registry is
   absent and the image is parsed from all of s, slashes kept. *)
C6_Registry ==
    (Called("from_step") /\ IsDockerInput(uses))
    => LET rest == DockerRest(uses)
           u    == results["from_step"]
       IN  /\ u # <<>>
           /\ u[1].variant = "Docker"
           /\ u[1].docker.registry # <<>> <=> NamesRegistry(rest)
           /\ IF NamesRegistry(rest)
              THEN /\ u[1].docker.registry = <<TextBefore(rest, FirstPos(rest, "/"))>>
                   /\ u[1].docker.image =
                          ImageName(TextAfter(rest, FirstPos(rest, "/")))
              ELSE /\ u[1].docker.registry = <<>>
                   /\ u[1].docker.image = ImageName(rest)

\* A `localhost:<port>` registry has been split off an image that keeps a `/`.
C6_Witness ==
    /\ Called("from_step")
    /\ IsDockerInput(uses)
    /\ results["from_step"][1].docker.registry # <<>>
    /\ ":" \in Chars(results["from_step"][1].docker.registry[1])
    /\ "." \notin Chars(results["from_step"][1].docker.registry[1])
    /\ "/" \in Chars(results["from_step"][1].docker.image)

---------------------------------------------------------------------------
(* C7: a Docker reference never has both tag and hash: with `@` in the
   image part the tag is absent even when `:` occurs too; without `@` the
   hash is absent and the tag is the text after the first `:`, absent when
   there is no `:` or that text is empty. *)
C7_TagXorHash ==
    (Called("from_step") /\ IsDockerInput(uses))
    => LET part == ImagePart(DockerRest(uses))
           d    == results["from_step"][1].docker
       IN  /\ ~(d.tag # <<>> /\ d.hash # <<>>)
           /\ IF "@" \in Chars(part)
              THEN d.tag = <<>>
              ELSE /\ d.hash = <<>>
                   /\ d.tag = IF ":" \in Chars(part)
                              THEN NonEmpty(TextAfter(part, FirstPos(part, ":")))
                              ELSE <<>>

\* An image part with a `:` before its `@` has been parsed.
C7_Witness ==
    /\ Called("from_step")
    /\ IsDockerInput(uses)
    /\ LET part == ImagePart(DockerRest(uses))
       IN  /\ "@" \in Chars(part)
           /\ ":" \in Chars(part)
           /\ FirstPos(part, ":") < FirstPos(part, "@")

---------------------------------------------------------------------------
(* C8: the rules apply in order, first match wins, through both entry
   points: `./...` yields no reference whatever follows; else `docker://...`
   is parsed as an image reference and never yields a Repository reference;
   every other input yields a Repository reference or none, never a Docker
   reference. *)
C8_RuleOrder ==
    /\ Called("from_step") =>
          LET u == results["from_step"]
          IN  /\ IsLocalInput(uses) => u = <<>>
              /\ IsDockerInput(uses) => (u # <<>> /\ u[1].variant = "Docker")
              /\ IsRepositoryInput(uses) => (u = <<>> \/ u[1].variant = "Repository")
    /\ Called("from_reusable") =>
          LET r == results["from_reusable"]
          IN  /\ IsLocalInput(uses) => r = <<>>
              /\ IsDockerInput(uses) => r = <<>>
              /\ IsRepositoryInput(uses) =>
                    (r = <<>> \/ DOMAIN r[1] = {"owner", "repo", "subpath", "git_ref"})

\* Both entry points have parsed a `./` input that ends in `@` and a commit hash.
C8_Witness ==
    /\ Called("from_step")
    /\ Called("from_reusable")
    /\ IsLocalInput(uses)
    /\ "@" \in Chars(uses)
    /\ IsCommitHash(TextAfter(uses, LastPos(uses, "@")))
    /\ Len(RefPath(uses)) > 2

---------------------------------------------------------------------------
(* C9: every steps() call on a Normal job with n declared steps starts an
   enumeration of its own that yields exactly n Step views, with indices
   0, 1, ..., n-1 in this order, the view with index i wrapping the i-th
   declared step and having that job as parent, and then ends; what one
   enumeration has yielded does not depend on how far another one of the
   same job has advanced. *)
C9_StepsInOrder ==
    /\ Len(yields) = Len(steps_iters)
    /\ \A k \in 1..Len(steps_iters) :
          LET parent == steps_iters[k].parent
              id     == parent.id
              n      == Len(workflow.jobs[id].steps)
          IN  /\ id \in DOMAIN workflow.jobs
              /\ workflow.jobs[id].kind = "NormalJob"
              /\ parent = [id |-> id, inner |-> [job |-> id], parent |-> workflow.path]
              /\ Len(yields[k]) <= n + MaxNone
              /\ \A i \in 1..Len(yields[k]) :
                    yields[k][i] =
                        IF i <= n
                        THEN <<[index  |-> i - 1,
                                inner  |-> [job |-> id, at |-> i - 1],
                                parent |-> parent]>>
                        ELSE <<>>

\* Two enumerations of one job with at least two steps: one has run to its
\* end, the other has yielded only its first step.
C9_Witness ==
    \E k1, k2 \in 1..Len(steps_iters) :
        LET id == steps_iters[k1].parent.id
            n  == Len(workflow.jobs[id].steps)
        IN  /\ k1 # k2
            /\ steps_iters[k2].parent.id = id
            /\ n >= 2
            /\ Len(yields[k1]) = n + 1
            /\ yields[k1][n + 1] = <<>>
            /\ Len(yields[k2]) = 1

---------------------------------------------------------------------------
(* C10: steps() on a Reusable-call job panics when the enumeration is
   created and returns no iterator, empty or otherwise; so every Steps
   iterator and every Step view has a Normal job as its parent, and
   Step::job() never reaches its unreachable!() arm. *)
C10_NoStepsOnReusable ==
    /\ [](/\ abort # "unreachable"
          /\ \A k \in 1..Len(steps_iters) :
                /\ workflow.jobs[steps_iters[k].parent.id].kind = "NormalJob"
                /\ \A i \in 1..Len(yields[k]) :
                      yields[k][i] # <<>> =>
                          workflow.jobs[yields[k][i][1].parent.id].kind = "NormalJob")
    /\ [][\A id \in DOMAIN workflow.jobs :
            (JobSteps(id) /\ workflow.jobs[id].kind = "ReusableWorkflowCallJob")
            => /\ abort = "none"
               /\ abort' = "steps() on a reusable job"
               /\ steps_iters' = steps_iters
               /\ yields' = yields]_vars

\* steps() on a Reusable-call job has panicked after a Step view of a Normal
\* job was yielded.
C10_Witness ==
    /\ abort = "steps() on a reusable job"
    /\ \E k \in 1..Len(yields) : \E i \in 1..Len(yields[k]) : yields[k][i] # <<>>
    /\ \E id \in DOMAIN workflow.jobs : workflow.jobs[id].kind = "ReusableWorkflowCallJob"

---------------------------------------------------------------------------
(* C11: every jobs() call on a Workflow starts an enumeration of its own
   that yields exactly one Job view per entry of the workflow's job
   mapping, each with that entry's key as id and the Workflow as parent,
   and then ends; no enumeration yields two Job views with the same id. *)
C11_JobsOncePerEntry ==
    /\ Len(job_yields) = Len(jobs_iters)
    /\ \A k \in 1..Len(job_yields) :
          LET ys    == job_yields[k]
              somes == {i \in 1..Len(ys) : ys[i] # <<>>}
          IN  /\ \A i \in somes :
                    /\ ys[i][1].id \in DOMAIN workflow.jobs
                    /\ ys[i][1] = [id     |-> ys[i][1].id,
                                   inner  |-> [job |-> ys[i][1].id],
                                   parent |-> workflow.path]
              /\ \A i, j \in somes : i # j => ys[i][1].id # ys[j][1].id
              /\ \A i \in 1..Len(ys) : i \notin somes =>
                    /\ \A j \in somes : j < i
                    /\ {ys[j][1].id : j \in somes} = DOMAIN workflow.jobs

\* Two enumerations of a workflow with two jobs: one has run to its end, the
\* other has yielded only its first Job view.
C11_Witness ==
    /\ Cardinality(DOMAIN workflow.jobs) = 2
    /\ \E k1, k2 \in 1..Len(job_yields) :
          /\ k1 # k2
          /\ Len(job_yields[k1]) = 3
          /\ job_yields[k1][3] = <<>>
          /\ Len(job_yields[k2]) = 1
          /\ job_yields[k2][1] # <<>>

---------------------------------------------------------------------------
(* C12: Workflow::from_file either fails with an error or returns a
   complete Workflow. It fails when the path is not valid UTF-8 or has no
   filename component, when the text cannot be deserialized, or when the
   index cannot be built; so every Workflow that exists has a UTF-8 path
   with a non-empty filename component, on which filename() never aborts,
   and both a deserialized model and an index; a failed load leaves no
   Workflow behind. *)

\* The `/`-separated segment of p that starts at i and ends at j.
IsSegment(p, i, j) ==
    /\ 1 <= i /\ i <= j /\ j <= Len(p)
    /\ \A k \in i..j : p[k] # "/"
    /\ i = 1 \/ p[i - 1] = "/"
    /\ j = Len(p) \/ p[j + 1] = "/"

\* The segment is a name, and only `/` and `.` segments follow it.
IsFilenameAt(p, i, j) ==
    /\ IsSegment(p, i, j)
    /\ [k \in 1..(j - i + 1) |-> p[i + k - 1]] \notin {<<".">>, <<".", ".">>}
    /\ \A k \in (j + 1)..Len(p) :
          /\ p[k] \in {"/", "."}
          /\ p[k] = "." => (p[k - 1] = "/" /\ (k = Len(p) \/ p[k + 1] = "/"))

HasFilename(p) == \E i, j \in 1..Len(p) : IsFilenameAt(p, i, j)

IsUtf8(p) == \A i \in 1..Len(p) : p[i] # "<FF>"

=============================================================================
